---- MODULE Spec2Model ----
\* A model of weatherchecker.py: one Streamlit script run per form submission
\* (input check -> geocode_city -> fetch_weather -> render), the two
\* st.cache_data caches with their time-to-live, and the derivation of the
\* displayed values from the forecast payload.
EXTENDS Integers, Sequences, FiniteSets, TLC

VARIABLES
    now,         \* wall-clock time in seconds
    geoCache,    \* st.cache_data store of geocode_city: name -> [val, at]
    wxCache,     \* st.cache_data store of fetch_weather: <<lat, lon>> -> [val, at]
    pc,          \* position of the script run: idle, geocode, forecast, render, done
    city_input,  \* the submitted text, a sequence of characters
    place,       \* the script's variable place
    data,        \* the script's variable data
    view,        \* what the run has rendered so far
    raised,      \* name of the exception that escaped the run, "" if none
    log          \* the cached-function calls of the current run, in order: the
                 \* arguments, whether an outbound GET was issued, the outcome

vars == <<now, geoCache, wxCache, pc, city_input, place, data, view, raised, log>>

\* ---------------------------------------------------------------- bounds
MaxPad == 1      \* most spaces typed before or after a name
MaxTime == 600   \* the clock stops advancing here
MaxHours == 30   \* longest hourly series

\* ------------------------------------------------------- Python / JSON values
\* Every value is a record tagged by t, so that values of different Python
\* types can be compared.
None == [t |-> "None"]
Num(x) == [t |-> "num", num |-> x]
Str(s) == [t |-> "str", str |-> s]
List(s) == [t |-> "list", items |-> s]
Dict(f) == [t |-> "dict", f |-> f]

IsNone(v) == v.t = "None"
IsDict(v) == v.t = "dict"

\* dict.get(key) with the default None
Get(d, k) == IF k \in DOMAIN d.f THEN d.f[k] ELSE None

\* dict.get(key, default)
GetOr(d, k, dflt) == IF k \in DOMAIN d.f THEN d.f[k] ELSE dflt

EmptyDict == Dict([k \in {} |-> None])

\* Python truthiness of the values the script tests with `not x` / `x or y`
Truthy(v) ==
    CASE v.t = "None" -> FALSE
      [] v.t = "dict" -> DOMAIN v.f # {}
      [] v.t = "list" -> Len(v.items) > 0
      [] v.t = "num" -> v.num # 0
      [] v.t = "str" -> v.str # ""

\* Temperatures are kept in thousandths of a degree, so that 9.999 is 9999.
Deg(d) == d * 1000

\* str.strip(): drop leading and trailing whitespace
RECURSIVE LStrip(_)
LStrip(s) == IF Len(s) > 0 /\ Head(s) = " " THEN LStrip(Tail(s)) ELSE s

RECURSIVE RStrip(_)
RStrip(s) ==
    IF Len(s) > 0 /\ s[Len(s)] = " " THEN RStrip(SubSeq(s, 1, Len(s) - 1)) ELSE s

Strip(s) == RStrip(LStrip(s))

\* ------------------------------------------------------------ WEATHERCODE_TEXT
WEATHERCODE_TEXT ==
    (0 :> "Clear") @@
    (1 :> "Mainly clear") @@ (2 :> "Partly cloudy") @@ (3 :> "Overcast") @@
    (45 :> "Fog") @@ (48 :> "Depositing rime fog") @@
    (51 :> "Light drizzle") @@ (53 :> "Moderate drizzle") @@ (55 :> "Dense drizzle") @@
    (56 :> "Freezing drizzle (light)") @@ (57 :> "Freezing drizzle (dense)") @@
    (61 :> "Light rain") @@ (63 :> "Moderate rain") @@ (65 :> "Heavy rain") @@
    (66 :> "Freezing rain (light)") @@ (67 :> "Freezing rain (heavy)") @@
    (71 :> "Light snow") @@ (73 :> "Moderate snow") @@ (75 :> "Heavy snow") @@
    (77 :> "Snow grains") @@
    (80 :> "Rain showers (slight)") @@ (81 :> "Rain showers (moderate)") @@
    (82 :> "Rain showers (violent)") @@
    (85 :> "Snow showers (slight)") @@ (86 :> "Snow showers (heavy)") @@
    (95 :> "Thunderstorm (slight/moderate)") @@
    (96 :> "Thunderstorm with slight hail") @@ (99 :> "Thunderstorm with heavy hail")

\* ------------------------------------------------------------ st.cache_data
GEO_TTL == 600
WX_TTL == 300

\* Variant: an entry is still served at the instant its ttl has elapsed.
Fresh_Inclusive(cache, key, ttl) == key \in DOMAIN cache /\ now - cache[key].at <= ttl

\* An entry is served while it is younger than the ttl of its function.
Fresh(cache, key, ttl) == key \in DOMAIN cache /\ now - cache[key].at < ttl

\* Variant: a None result is not stored.
Stored_SkipNone(cache, key, val) ==
    IF IsNone(val) THEN cache
    ELSE [k \in DOMAIN cache \cup {key} |->
             IF k = key THEN [val |-> val, at |-> now] ELSE cache[k]]

\* The store after the function returned val for key at the current time.
Stored(cache, key, val) ==
    [k \in DOMAIN cache \cup {key} |-> IF k = key THEN [val |-> val, at |-> now] ELSE cache[k]]

\* The cache key of a call: the hash of its arguments.
GeoKey(name) == name

\* Variant: the longitude is left out of the key.
WxKey_LatOnly(lat, lon) == <<lat, lat>>

WxKey(lat, lon) == <<lat, lon>>

Return(v) == [kind |-> "return", val |-> v]
Raise(e) == [kind |-> "raise", exc |-> e]

\* ------------------------------------------------------------ the two services
\* What the geocoding service can answer to one GET.
GeoItem(lat, lon, admin1) ==
    Dict([name |-> Str("City"), country |-> Str("Land"), admin1 |-> admin1,
          latitude |-> Num(lat), longitude |-> Num(lon)])

GeoItems == {GeoItem(1, 1, Str("Region")), GeoItem(1, 2, None)}

GeoBodies ==
    {Dict([generationtime_ms |-> Num(1)])}                       \* no results field
    \cup {Dict([results |-> List(<<>>)])}                        \* zero results
    \cup {Dict([results |-> List(<<i>>)]) : i \in GeoItems}      \* one match
    \cup {List(<<Num(1)>>)}                                      \* not a JSON object

HttpResponses(bodies) ==
    {[kind |-> "RequestException"]}                   \* timeout, connection failure
    \cup {[kind |-> "HTTPError"]}                     \* non-success status
    \cup {[kind |-> "bad_json"]}                      \* success, body is not JSON
    \cup {[kind |-> "ok", body |-> b] : b \in bodies}


\* geocode_city, lines 35-50: the outcome of the body on one response. A
\* success body that is not JSON makes r.json() raise requests' JSONDecodeError,
\* a RequestException, which line 49 catches like the transport errors.
geocode_city(name, resp) ==
    CASE resp.kind \in {"RequestException", "HTTPError", "bad_json"} -> Return(None)
      [] resp.kind = "ok" ->
           LET body == resp.body IN
           IF ~IsDict(body) THEN Raise("AttributeError")
           ELSE IF ~Truthy(Get(body, "results")) THEN Return(None)
           ELSE LET item == Get(body, "results").items[1] IN
                Return(Dict([name |-> Get(item, "name"),
                             country |-> Get(item, "country"),
                             admin1 |-> Get(item, "admin1"),
                             lat |-> Get(item, "latitude"),
                             lon |-> Get(item, "longitude")]))

\* An hourly timestamp as the service sends it ("2024-01-01T00:00"), as
\* pd.to_datetime parses it, and as strftime("%Y-%m-%d %H:%M") prints it.
IsoTime(i) == [t |-> "str", day |-> i \div 24, hour |-> i % 24, minute |-> 0, sep |-> "T"]
to_datetime(s) == [t |-> "Timestamp", day |-> s.day, hour |-> s.hour, minute |-> s.minute]
strftime(ts) == [t |-> "str", day |-> ts.day, hour |-> ts.hour, minute |-> ts.minute, sep |-> " "]

\* The hourly object of a forecast: three parallel arrays of the given lengths
\* (npop < 0: no precipitation_probability field).
HourlyTimes(n) == List([i \in 1..n |-> IsoTime(i - 1)])
HourlyTemps(n) == List([i \in 1..n |-> Num(Deg(((7 * i) % 31) - 5))])
HourlyPops(n) == List([i \in 1..n |-> Num((13 * i) % 101)])

Hourly(ntime, ntemp, npop) ==
    IF npop < 0
    THEN Dict([time |-> HourlyTimes(ntime), temperature_2m |-> HourlyTemps(ntemp)])
    ELSE Dict([time |-> HourlyTimes(ntime), temperature_2m |-> HourlyTemps(ntemp),
               precipitation_probability |-> HourlyPops(npop)])

CurrentWeather(temp, code) ==
    Dict([temperature |-> temp, windspeed |-> Num(12), winddirection |-> Num(180),
          weathercode |-> code])

\* A forecast body answering a request for (lat, lon); its latitude and
\* longitude fields name the coordinate the request was made for.
Forecast(lat, lon, cw, hourly) ==
    Dict([latitude |-> lat, longitude |-> lon, current_weather |-> cw, hourly |-> hourly])

\* What the forecast service can answer to one GET for (lat, lon) in a run.
ForecastBodies(lat, lon) ==
    {Forecast(lat, lon, CurrentWeather(Num(Deg(22)), Num(2)), Hourly(3, 3, 3))}

\* fetch_weather, lines 55-67: the outcome of the body on one response.
fetch_weather(lat, lon, resp) ==
    CASE resp.kind \in {"RequestException", "HTTPError", "bad_json"} -> Return(None)
      [] resp.kind = "ok" -> Return(resp.body)

\* A call of a function decorated with st.cache_data(ttl=...): a fresh entry is
\* returned without running the body; otherwise the body runs (one outbound
\* GET), and a returned value, None included, is stored. An exception is not.
CachedCall(cache, key, ttl, outcomes) ==
    IF Fresh(cache, key, ttl)
    THEN {[out |-> Return(cache[key].val), cache |-> cache, get |-> FALSE]}
    ELSE {[out |-> o,
           cache |-> IF o.kind = "return" THEN Stored(cache, key, o.val) ELSE cache,
           get |-> TRUE] : o \in outcomes}


\* ------------------------------------------------------------ the rendered page
WARN_EMPTY == "Please type a city name."
ERR_NOT_FOUND == "Sorry, I couldn't find that city. Try again."
ERR_FETCH == "Could not fetch weather data. Try again."

COLD == "#b3daff"
MILD == "#d4f1c5"
HOT == "#ffb3b3"
DEFAULT == "#ffffff"
DASH == Str("-")

\* A page on which nothing has been rendered yet.
BlankView ==
    [msg |-> "", found |-> None, bg |-> "", metrics |-> None, chart |-> None, table |-> None]

\* Variant: a missing code is looked up as code 0.
Describe_MissingAsZero(code) ==
    IF IsNone(code) THEN WEATHERCODE_TEXT[0]
    ELSE IF code.num \in DOMAIN WEATHERCODE_TEXT THEN WEATHERCODE_TEXT[code.num]
    ELSE "N/A"

\* line 101: WEATHERCODE_TEXT.get(code, "N/A")
Describe(code) ==
    IF code.t = "num" /\ code.num \in DOMAIN WEATHERCODE_TEXT
    THEN WEATHERCODE_TEXT[code.num]
    ELSE "N/A"

\* Variant: the temperature is tested for truth, not against None.
BgColor_Truthiness(temp_now) ==
    IF Truthy(temp_now)
    THEN IF temp_now.num < Deg(10) THEN COLD
         ELSE IF temp_now.num < Deg(25) THEN MILD
         ELSE HOT
    ELSE DEFAULT

\* lines 104-112: the background colour of the current temperature
BgColor(temp_now) ==
    IF ~IsNone(temp_now)
    THEN IF temp_now.num < Deg(10) THEN COLD
         ELSE IF temp_now.num < Deg(25) THEN MILD
         ELSE HOT
    ELSE DEFAULT

\* lines 129-131: a metric shows the value, or a dash when it is missing
Metric(v) == IF ~IsNone(v) THEN v ELSE DASH

\* DataFrame.head(n): the first n rows, all of them when there are fewer
HeadRows(df, n) == SubSeq(df, 1, IF Len(df) < n THEN Len(df) ELSE n)

\* Variant: the last 24 rows, df.tail(24).
Head24_Tail(df) == SubSeq(df, IF Len(df) < 24 THEN 1 ELSE Len(df) - 23, Len(df))

\* line 144: df_24 = df.head(24)
Head24(df) == HeadRows(df, 24)

\* lines 96-157: what the script renders from a truthy data, and the exception
\* that ends it early, if any. Fields left None were not rendered.
Render(d) ==
    LET part == [bg |-> "", metrics |-> None, chart |-> None, table |-> None, exc |-> ""] IN
    IF ~IsDict(d) THEN [part EXCEPT !.exc = "AttributeError"]            \* line 96
    ELSE
    LET cw0 == Get(d, "current_weather")
        cw == IF Truthy(cw0) THEN cw0 ELSE EmptyDict
    IN
    IF ~IsDict(cw) THEN [part EXCEPT !.exc = "AttributeError"]           \* line 97
    ELSE
    LET temp_now == Get(cw, "temperature")
        windspeed == Get(cw, "windspeed")
        winddir == Get(cw, "winddirection")
        code == Get(cw, "weathercode")
        desc == Describe(code)
        top == [part EXCEPT !.bg = BgColor(temp_now),
                            !.metrics = Dict([temperature |-> Metric(temp_now),
                                              wind |-> Metric(windspeed),
                                              winddir |-> Metric(winddir),
                                              sky |-> Str(desc)])]
        hourly == GetOr(d, "hourly", EmptyDict)
    IN
    IF ~IsDict(hourly) THEN [top EXCEPT !.exc = "AttributeError"]        \* line 137
    ELSE
    LET times == GetOr(hourly, "time", List(<<>>)).items
        temps == GetOr(hourly, "temperature_2m", List(<<>>)).items
        pops == Get(hourly, "precipitation_probability")
    IN
    IF Len(times) # Len(temps) THEN [top EXCEPT !.exc = "ValueError"]    \* line 141
    ELSE IF ~IsNone(pops) /\ Len(pops.items) # Len(times)
    THEN [top EXCEPT !.exc = "ValueError"]                               \* line 143
    ELSE
    LET df == [i \in 1..Len(times) |->
                  [time |-> to_datetime(times[i]),
                   temperature_2m |-> temps[i],
                   precipitation_probability |->
                       IF IsNone(pops) THEN None ELSE pops.items[i]]]
        df_24 == Head24(df)
    IN
    [top EXCEPT
       !.chart = List([i \in 1..Len(df_24) |->
                          [time |-> df_24[i].time,
                           temperature_2m |-> df_24[i].temperature_2m]]),
       !.table = List([i \in 1..Len(df_24) |->
                          [local_time |-> strftime(df_24[i].time),
                           temp |-> df_24[i].temperature_2m,
                           rain_chance |-> df_24[i].precipitation_probability]])]


\* ------------------------------------------------------------ the script run
\* The city names typed, and the texts submitted: nothing but spaces, or a
\* name with spaces before and after it.
Names == {<<"a">>, <<"a", " ", "b">>}
Spaces(n) == [i \in 1..n |-> " "]
Inputs ==
    {Spaces(n) : n \in 0..MaxPad}
    \cup {Spaces(l) \o n \o Spaces(r) : l \in 0..MaxPad, r \in 0..MaxPad, n \in Names}

\* Elapsed seconds between two observed instants.
TickSteps == {299, 300}

\* Variant: the text is tested without stripping it.
InputEmpty_NoStrip(s) == Len(s) = 0

\* line 75: not city_input.strip()
InputEmpty(s) == Len(Strip(s)) = 0

\* Variants: the check is missing.
PlaceMissing_Never(p) == FALSE
DataMissing_Never(d) == FALSE

\* line 82: not place
PlaceMissing(p) == ~Truthy(p)

\* line 91: not data
DataMissing(d) == ~Truthy(d)

Init ==
    /\ now = 0
    /\ geoCache = [k \in {} |-> None]
    /\ wxCache = [k \in {} |-> None]
    /\ pc = "idle"
    /\ city_input = <<>>
    /\ place = None
    /\ data = None
    /\ view = BlankView
    /\ raised = ""
    /\ log = <<>>

\* Time passes between two submissions.
Tick ==
    /\ pc \in {"idle", "done"}
    /\ \E d \in TickSteps : now + d <= MaxTime /\ now' = now + d
    /\ UNCHANGED <<geoCache, wxCache, pc, city_input, place, data, view, raised, log>>

\* lines 74-77: the form is submitted; the script runs from the top on a blank page.
Submit ==
    /\ pc \in {"idle", "done"}
    /\ \E s \in Inputs :
         /\ city_input' = s
         /\ IF InputEmpty(s)
            THEN /\ view' = [BlankView EXCEPT !.msg = WARN_EMPTY]
                 /\ pc' = "done"
            ELSE /\ view' = BlankView
                 /\ pc' = "geocode"
    /\ place' = None
    /\ data' = None
    /\ raised' = ""
    /\ log' = <<>>
    /\ UNCHANGED <<now, geoCache, wxCache>>

\* lines 79-86: place = geocode_city(city_input.strip()), then the not-found check
GeocodeStage ==
    /\ pc = "geocode"
    /\ LET name == Strip(city_input)
           outcomes == {geocode_city(name, r) : r \in HttpResponses(GeoBodies)}
       IN \E c \in CachedCall(geoCache, GeoKey(name), GEO_TTL, outcomes) :
            /\ geoCache' = c.cache
            /\ log' = Append(log, [call |-> "geocode_city", name |-> name,
                                    get |-> c.get, out |-> c.out])
            /\ IF c.out.kind = "raise"
               THEN /\ raised' = c.out.exc
                    /\ pc' = "done"
                    /\ UNCHANGED <<place, view>>
               ELSE /\ place' = c.out.val
                    /\ IF PlaceMissing(c.out.val)
                       THEN /\ view' = [view EXCEPT !.msg = ERR_NOT_FOUND]
                            /\ pc' = "done"
                            /\ raised' = ""
                       ELSE IF ~IsDict(c.out.val)
                       THEN /\ raised' = "TypeError"         \* place['name'] on None
                            /\ pc' = "done"
                            /\ view' = view
                       ELSE /\ view' = [view EXCEPT !.found =
                                          Dict([name |-> c.out.val.f.name,
                                                admin1 |-> IF Truthy(c.out.val.f.admin1)
                                                           THEN c.out.val.f.admin1 ELSE Str(""),
                                                country |-> c.out.val.f.country])]
                            /\ pc' = "forecast"
                            /\ raised' = ""
    /\ UNCHANGED <<now, wxCache, city_input, data>>

\* lines 88-93: data = fetch_weather(place["lat"], place["lon"]), then the failure check
ForecastStage ==
    /\ pc = "forecast"
    /\ LET lat == place.f.lat
           lon == place.f.lon
           outcomes == {fetch_weather(lat, lon, r) :
                           r \in HttpResponses(ForecastBodies(lat, lon))}
       IN \E c \in CachedCall(wxCache, WxKey(lat, lon), WX_TTL, outcomes) :
            /\ wxCache' = c.cache
            /\ log' = Append(log, [call |-> "fetch_weather", lat |-> lat, lon |-> lon,
                                    get |-> c.get, out |-> c.out])
            /\ IF c.out.kind = "raise"
               THEN /\ raised' = c.out.exc
                    /\ pc' = "done"
                    /\ UNCHANGED <<data, view>>
               ELSE /\ data' = c.out.val
                    /\ raised' = ""
                    /\ IF DataMissing(c.out.val)
                       THEN /\ view' = [view EXCEPT !.msg = ERR_FETCH]
                            /\ pc' = "done"
                       ELSE /\ view' = view
                            /\ pc' = "render"
    /\ UNCHANGED <<now, geoCache, city_input, place>>

\* lines 96-157: the results view
RenderStage ==
    /\ pc = "render"
    /\ LET r == Render(data) IN
         /\ view' = [view EXCEPT !.bg = r.bg, !.metrics = r.metrics,
                                 !.chart = r.chart, !.table = r.table]
         /\ raised' = r.exc
    /\ pc' = "done"
    /\ UNCHANGED <<now, geoCache, wxCache, city_input, place, data, log>>

Next == Tick \/ Submit \/ GeocodeStage \/ ForecastStage \/ RenderStage

Spec == Init /\ [][Next]_vars


\* ------------------------------------------------ the derivation on its own
\* The forecast bodies the results view is derived from: every current
\* temperature and weather code of interest over a fixed hourly series, and
\* every shape of hourly series under fixed current conditions.
Temps == {None} \cup {Num(x) : x \in {Deg(-5), 0, 9999, Deg(10), 10001, 24999, Deg(25), 25001, Deg(40)}}
Codes == {None} \cup {Num(c) : c \in -1..100}

RenderBodies ==
    {Forecast(Num(1), Num(1), CurrentWeather(t, c), Hourly(3, 3, 3)) : t \in Temps, c \in Codes}
    \cup {Forecast(Num(1), Num(1), CurrentWeather(Num(Deg(22)), Num(2)), Hourly(n, n + dm, IF dk < 0 THEN -1 ELSE n + dk)) :
             n \in 0..MaxHours, dm \in {0, 1}, dk \in {-1, 0, 1}}
    \cup {Forecast(Num(1), Num(1), None, Hourly(3, 3, 3)),
          Forecast(Num(1), Num(1), CurrentWeather(Num(Deg(22)), Num(2)), None),
          List(<<Num(1), Num(1)>>)}

\* The run has looked up "a", found (1, 1) and fetched a truthy body for it.
InitRender ==
    \E body \in RenderBodies :
      LET p == Dict([name |-> Str("City"), country |-> Str("Land"), admin1 |-> None,
                     lat |-> Num(1), lon |-> Num(1)])
      IN
      /\ now = 0
      /\ geoCache = (<<"a">> :> [val |-> p, at |-> 0])
      /\ wxCache = (<<Num(1), Num(1)>> :> [val |-> body, at |-> 0])
      /\ pc = "render"
      /\ city_input = <<"a">>
      /\ place = p
      /\ data = body
      /\ view = [BlankView EXCEPT !.found =
                   Dict([name |-> Str("City"), admin1 |-> Str(""), country |-> Str("Land")])]
      /\ raised = ""
      /\ log = <<[call |-> "geocode_city", name |-> <<"a">>, get |-> TRUE, out |-> Return(p)],
                 [call |-> "fetch_weather", lat |-> Num(1), lon |-> Num(1),
                  get |-> TRUE, out |-> Return(body)]>>

SpecRender == InitRender /\ [][RenderStage]_vars


\* ==================================================================== claims
\* The call of a cached function recorded in the current run, if any.
Called(f) == \E i \in 1..Len(log) : log[i].call = f
CallOf(f) == log[CHOOSE i \in 1..Len(log) : log[i].call = f]
ReturnedNone(f) == Called(f) /\ CallOf(f).out = Return(None)
NothingBelowBanner ==
    view.bg = "" /\ view.metrics = None /\ view.chart = None /\ view.table = None
IsBlank(s) == \A i \in 1..Len(s) : s[i] = " "

\* C1: when geocode_city returns None the run ends with the city-not-found
\* error and fetch_weather is not called in that run; fetch_weather is called
\* only after geocode_city returned a place.
C1_NotFoundHalts ==
    /\ ReturnedNone("geocode_city") =>
         /\ pc = "done"
         /\ view.msg = "Sorry, I couldn't find that city. Try again."
         /\ ~Called("fetch_weather")
         /\ Len(log) = 1
    /\ Called("fetch_weather") =>
         /\ log[1].call = "geocode_city"
         /\ log[1].out.kind = "return"
         /\ IsDict(log[1].out.val)
         /\ place = log[1].out.val

C1_Witness ==
    /\ pc = "done"
    /\ ReturnedNone("geocode_city")
    /\ log[1].get
    /\ view.msg = ERR_NOT_FOUND

\* C2: when geocoding succeeded and fetch_weather returns None the run ends
\* with the fetch-failure error and renders no metrics, no background colour,
\* no chart and no table.
C2_FetchFailedHalts ==
    ReturnedNone("fetch_weather") =>
        /\ pc = "done"
        /\ raised = ""
        /\ view.msg = "Could not fetch weather data. Try again."
        /\ NothingBelowBanner

C2_Witness ==
    /\ pc = "done"
    /\ IsDict(place)
    /\ ReturnedNone("fetch_weather")
    /\ CallOf("fetch_weather").get
    /\ view.msg = ERR_FETCH

\* A step that runs the geocode stage, and the call it records.
GeocodeStep == pc = "geocode" /\ pc' # "geocode"
ForecastStep == pc = "forecast" /\ pc' # "forecast"
LastCall == log'[Len(log')]

\* C3: a geocode_city call for a string looked up less than 600 seconds ago
\* returns the cached value with no outbound GET; the same string 600 seconds
\* or more after the lookup issues a new GET; a string never looked up issues
\* a GET whatever other strings are cached, and leaves their entries alone.
C3_GeoCacheTtl ==
    [][GeocodeStep =>
         LET name == LastCall.name IN
         /\ (name \in DOMAIN geoCache /\ now - geoCache[name].at < 600) =>
              /\ ~LastCall.get
              /\ LastCall.out = Return(geoCache[name].val)
              /\ geoCache' = geoCache
         /\ (name \in DOMAIN geoCache /\ now - geoCache[name].at >= 600) => LastCall.get
         /\ name \notin DOMAIN geoCache => LastCall.get
         /\ \A other \in DOMAIN geoCache \ {name} : geoCache'[other] = geoCache[other]
      ]_vars

C3_Witness ==
    /\ Called("geocode_city")
    /\ ~CallOf("geocode_city").get
    /\ now - geoCache[CallOf("geocode_city").name].at = 599
    /\ Cardinality(DOMAIN geoCache) = 2

\* C4: a blank submission (empty or only spaces) ends with the warning and
\* nothing else: no cached function is called, no GET is issued and neither
\* cache is changed.
C4_BlankInput ==
    /\ [](/\ (pc = "done" /\ IsBlank(city_input)) =>
               /\ view = [BlankView EXCEPT !.msg = "Please type a city name."]
               /\ log = <<>>
               /\ raised = ""
          /\ pc \in {"geocode", "forecast", "render"} => ~IsBlank(city_input))
    /\ [][IsBlank(city_input') => UNCHANGED <<geoCache, wxCache>>]_vars

C4_Witness ==
    /\ pc = "done"
    /\ Len(city_input) > 0
    /\ IsBlank(city_input)
    /\ view.msg = WARN_EMPTY
    /\ DOMAIN geoCache # {}


\* The current temperature and weather code of the fetched body.
HasCurrent == IsDict(data) /\ IsDict(Get(data, "current_weather"))
CurrentTemp == data.f.current_weather.f.temperature
CurrentCode == data.f.current_weather.f.weathercode

\* C5: the background colour is #b3daff below 10 degrees, #d4f1c5 from 10 up
\* to but not including 25, #ffb3b3 from 25 on and #ffffff without a
\* temperature; 9.999 is cold, 10.0 and 24.999 are mild, 25.0 is hot and 0 is
\* cold.
C5_Banding ==
    (pc = "done" /\ IsDict(data)) =>
        IF HasCurrent /\ ~IsNone(CurrentTemp)
        THEN /\ CurrentTemp.num < 10000 => view.bg = "#b3daff"
             /\ (10000 <= CurrentTemp.num /\ CurrentTemp.num < 25000) => view.bg = "#d4f1c5"
             /\ CurrentTemp.num >= 25000 => view.bg = "#ffb3b3"
             /\ CurrentTemp.num = 9999 => view.bg = "#b3daff"
             /\ CurrentTemp.num = 10000 => view.bg = "#d4f1c5"
             /\ CurrentTemp.num = 24999 => view.bg = "#d4f1c5"
             /\ CurrentTemp.num = 25000 => view.bg = "#ffb3b3"
             /\ CurrentTemp.num = 0 => view.bg = "#b3daff"
        ELSE view.bg = "#ffffff"

C5_Witness ==
    /\ pc = "done"
    /\ HasCurrent
    /\ CurrentTemp = Num(10000)
    /\ view.bg = MILD

\* The codes the table is documented to cover.
DocumentedCodes ==
    {0, 1, 2, 3, 45, 48, 51, 53, 55, 56, 57, 61, 63, 65, 66, 67, 71, 73, 75, 77,
     80, 81, 82, 85, 86, 95, 96, 99}

\* C6: the sky text is the table's description for every documented code and
\* "N/A" for every other integer and for a missing code; an unknown code raises
\* nothing and the run goes on to render the chart and the table.
C6_Translator ==
    (pc = "done" /\ HasCurrent /\ Get(data, "hourly") = Hourly(3, 3, 3)) =>
        /\ raised = ""
        /\ view.chart # None
        /\ view.table # None
        /\ IF ~IsNone(CurrentCode) /\ CurrentCode.num \in DocumentedCodes
           THEN /\ view.metrics.f.sky.str # "N/A"
                /\ view.metrics.f.sky.str = WEATHERCODE_TEXT[CurrentCode.num]
                /\ CurrentCode.num = 0 => view.metrics.f.sky.str = "Clear"
                /\ CurrentCode.num = 2 => view.metrics.f.sky.str = "Partly cloudy"
                /\ CurrentCode.num = 99 => view.metrics.f.sky.str = "Thunderstorm with heavy hail"
           ELSE view.metrics.f.sky.str = "N/A"

C6_Witness ==
    /\ pc = "done"
    /\ HasCurrent
    /\ CurrentCode = Num(4)
    /\ view.metrics.f.sky = Str("N/A")
    /\ view.table # None

\* C7: the chart and the table both hold exactly the first min(n, 24) entries
\* of an hourly series of n entries, in the order of the series.
C7_First24 ==
    (pc = "done" /\ raised = "" /\ IsDict(data) /\ IsDict(Get(data, "hourly"))) =>
        LET times == data.f.hourly.f.time.items
            temps == data.f.hourly.f.temperature_2m.items
            n == Len(times)
            k == IF n < 24 THEN n ELSE 24
        IN
        /\ Len(view.chart.items) = k
        /\ Len(view.table.items) = k
        /\ \A i \in 1..k :
             /\ view.chart.items[i].time.day = times[i].day
             /\ view.chart.items[i].time.hour = times[i].hour
             /\ view.chart.items[i].temperature_2m = temps[i]
             /\ view.table.items[i].local_time.day = times[i].day
             /\ view.table.items[i].local_time.hour = times[i].hour
             /\ view.table.items[i].local_time.sep = " "
             /\ view.table.items[i].temp = temps[i]

C7_Witness ==
    /\ pc = "done"
    /\ raised = ""
    /\ IsDict(data)
    /\ IsDict(Get(data, "hourly"))
    /\ Len(data.f.hourly.f.time.items) = 30
    /\ Len(view.table.items) = 24
    /\ Len(view.chart.items) = 24

\* C8: no exception escapes a run: it ends in one of the three messages or in
\* a complete results view.
C8_NoExceptionEscapes ==
    pc = "done" =>
        /\ raised = ""
        /\ \/ view.msg \in {WARN_EMPTY, ERR_NOT_FOUND, ERR_FETCH}
           \/ (view.metrics # None /\ view.chart # None /\ view.table # None)

\* C9: whatever the results view shows was derived from a forecast fetched for
\* the latitude and longitude of the place the run found.
C9_ForecastOfPlace ==
    (view.bg # "" \/ view.metrics # None \/ view.chart # None \/ view.table # None) =>
        /\ IsDict(place)
        /\ IsDict(data)
        /\ data.f.latitude = place.f.lat
        /\ data.f.longitude = place.f.lon

C9_Witness ==
    /\ pc = "done"
    /\ view.table # None
    /\ ~CallOf("fetch_weather").get
    /\ \E a, b \in DOMAIN geoCache :
         /\ IsDict(geoCache[a].val)
         /\ IsDict(geoCache[b].val)
         /\ geoCache[a].val.f.lon # geoCache[b].val.f.lon
    /\ Cardinality(DOMAIN wxCache) = 2

\* C10: a None result is cached like any other: it is stored when returned,
\* and while the entry is fresh (600 seconds for geocode_city, 300 for
\* fetch_weather) a run for the same name or coordinate shows the same error
\* without an outbound GET.
C10_FailureCached ==
    [][/\ GeocodeStep =>
            LET name == LastCall.name IN
            /\ LastCall.out = Return(None) =>
                 (name \in DOMAIN geoCache' /\ geoCache'[name].val = None
                    /\ now - geoCache'[name].at < 600)
            /\ (name \in DOMAIN geoCache /\ geoCache[name].val = None
                  /\ now - geoCache[name].at < 600) =>
                 /\ ~LastCall.get
                 /\ view'.msg = "Sorry, I couldn't find that city. Try again."
                 /\ pc' = "done"
       /\ ForecastStep =>
            LET key == <<LastCall.lat, LastCall.lon>> IN
            /\ LastCall.out = Return(None) =>
                 (key \in DOMAIN wxCache' /\ wxCache'[key].val = None
                    /\ now - wxCache'[key].at < 300)
            /\ (key \in DOMAIN wxCache /\ wxCache[key].val = None
                  /\ now - wxCache[key].at < 300) =>
                 /\ ~LastCall.get
                 /\ view'.msg = "Could not fetch weather data. Try again."
                 /\ pc' = "done"
      ]_vars

C10_Witness ==
    /\ pc = "done"
    /\ view.msg = ERR_FETCH
    /\ ~CallOf("fetch_weather").get
    /\ ~CallOf("geocode_city").get
    /\ now - wxCache[<<place.f.lat, place.f.lon>>].at = 299

====
